---- MODULE Spec2Model ----
(***************************************************************************)
(* cloudsync: the CloudSync trait of src/src/lib.rs (save, rm, get, hash)  *)
(* over one Firestore collection, instantiated as the crate's own TestOBJ  *)
(* (a String key and a String data field, Unique<String>).                 *)
(*                                                                         *)
(* Every trait method is a chain of awaits.  Each await is one step of the *)
(* calling task, so other callers may run between two steps of the same    *)
(* call.  The collection is the set of documents the Firestore project     *)
(* holds; the three FirestoreDb calls the trait makes are modelled by      *)
(* their effect on that set:                                               *)
(*   delete_by_id  removes the document with that id, and succeeds when    *)
(*                 there is none (a delete without precondition);          *)
(*   create_obj    adds a document under a new id and is refused with      *)
(*                 AlreadyExists when the id is taken;                     *)
(*   query_obj     returns every document of the collection, deserialized, *)
(*                 in an order the store chooses.                          *)
(* A request that faults (connection, transport) has no effect on the      *)
(* collection.                                                             *)
(***************************************************************************)
EXTENDS Naturals, Sequences, FiniteSets

\* ------------------------------------------------------------------ bounds
\* How many different payloads an object may carry.
MaxData == 2

DataNames == <<"data", "data2", "data3", "data4">>

\* The values of TestOBJ.key and of TestOBJ.data.
Keys == {"aaa", "bbb"}
Data == {DataNames[i] : i \in 1..MaxData}

\* The tasks that call the trait's methods.
Procs == {"p1", "p2"}

\* ------------------------------------------------------------------ data
\* struct TestOBJ { key: String, data: String }
TestOBJ == [key : Keys, data : Data]

\* No receiver: get() and hash() are associated functions without self.
NoObj == [key |-> "", data |-> ""]

\* impl Unique<String> for TestOBJ: String::from(&self.key)
uuid(obj) == obj.key

\* T: Display, here String, whose to_string() is the string itself.
ToString(k) == k

\* Mutant: the document id taken from the payload instead of the key.
DocId_data(obj) == ToString(obj.data)

\* The document id every call uses: self.uuid().to_string()
DocId(obj) == ToString(uuid(obj))

\* serde Serialize into a Firestore document: one named field per struct field.
Serialize(obj) == {<<"key", obj.key>>, <<"data", obj.data>>}

FieldOf(fields, name) == (CHOOSE f \in fields : f[1] = name)[2]

\* serde Deserialize of a Firestore document back into the struct.
Deserialize(fields) ==
    [key |-> FieldOf(fields, "key"), data |-> FieldOf(fields, "data")]

\* A stored document: its id within the collection and its fields.
Doc(id, obj) == [id |-> id, fields |-> Serialize(obj)]

\* The collections this binding can have written: every document sits under
\* the id of the object it holds, one document per id.
Collections ==
    {s \in SUBSET {Doc(DocId(o), o) : o \in TestOBJ} :
        \A d1, d2 \in s : d1.id = d2.id => d1 = d2}

\* ------------------------------------------------------------------ store
\* Mutant: the delete empties the collection.
delete_by_id_all(s, id) ==
    [res |-> "Ok", store |-> {}]

\* Mutant: a delete that requires the document to exist.
delete_by_id_strict(s, id) ==
    IF \E d \in s : d.id = id
    THEN [res |-> "Ok", store |-> {d \in s : d.id # id}]
    ELSE [res |-> "NotFound", store |-> s]

\* db.delete_by_id(collection, id): no precondition, so a missing document
\* is not an error.
delete_by_id(s, id) ==
    [res |-> "Ok", store |-> {d \in s : d.id # id}]

\* Mutant: a create that does not look for a document under the id.
create_obj_blind(s, id, obj) ==
    [res |-> "Ok", store |-> s \cup {[id |-> id, fields |-> Serialize(obj)]}]

\* db.create_obj(collection, id, obj): CreateDocument, refused when the id is
\* already taken.
create_obj(s, id, obj) ==
    IF \E d \in s : d.id = id
    THEN [res |-> "AlreadyExists", store |-> s]
    ELSE [res |-> "Ok", store |-> s \cup {Doc(id, obj)}]

\* db.query_obj(Single(collection)): the whole collection as a Vec<Self>, in
\* any order.
query_obj(s) ==
    LET n == Cardinality(s)
        orders == {f \in [1..n -> s] : \A i, j \in 1..n : i # j => f[i] # f[j]}
    IN  {[i \in 1..n |-> Deserialize(f[i].fields)] : f \in orders}

\* Mutant: the entry is filed under the payload, hash.insert(obj.data, obj).
HashInsert_bydata(h, k, v) ==
    [x \in (DOMAIN h) \cup {v.data} |-> IF x = v.data THEN v ELSE h[x]]

\* HashMap::insert(k, v): a later value replaces an earlier one under k.
HashInsert(h, k, v) ==
    [x \in (DOMAIN h) \cup {k} |-> IF x = k THEN v ELSE h[x]]

RECURSIVE HashFrom(_, _)
\* for obj in objects { hash.insert(obj.uuid(), obj); }
HashFrom(h, objects) ==
    IF objects = <<>> THEN h
    ELSE HashFrom(HashInsert(h, uuid(Head(objects)), Head(objects)), Tail(objects))

\* let mut hash = HashMap::new(); the loop; Ok(hash)
HashOf(objects) == HashFrom(<<>>, objects)

\* The environment-driven config: the project id is read from an environment
\* variable, and its absence is a configuration error.
ResolveConfig(present) == IF present THEN "Ok" ELSE "ConfigurationError"

\* ------------------------------------------------------------------ state
VARIABLES
    store,      \* the documents of the configured collection
    callers,    \* the tasks that use the collection in this run
    pc,         \* per task: "idle" or the await its call is suspended before
    op,         \* per task: the method of its current (or last) call
    self,       \* per task: the receiver of that call
    res,        \* per task: the call's result, "pending" while it runs
    ret,        \* per task: the Vec (get) or HashMap (hash) the call returned
    calls,      \* per task: the store interactions the call has attempted
    hit,        \* per task: its save has deleted a document and not yet created one
    pre,        \* a lone caller: the collection when its call began
    prev,       \* a lone caller: its call before the current one
    torn        \* per task: the keys its query ran in the middle of a save of

vars == <<store, callers, pc, op, self, res, ret, calls, hit, pre, prev, torn>>

NoCall == [op |-> "none", self |-> NoObj, res |-> "none", pre |-> {}]

\* History is kept for a task that is the only caller: then its calls follow
\* one another with no other operation in between.
Alone(p) == callers = {p}

InitCommon ==
    /\ store \in Collections
    /\ pc = [p \in Procs |-> "idle"]
    /\ op = [p \in Procs |-> "none"]
    /\ self = [p \in Procs |-> NoObj]
    /\ res = [p \in Procs |-> "none"]
    /\ ret = [p \in Procs |-> <<>>]
    /\ calls = [p \in Procs |-> <<>>]
    /\ hit = [p \in Procs |-> FALSE]
    /\ pre = [p \in Procs |-> {}]
    /\ prev = [p \in Procs |-> NoCall]
    /\ torn = [p \in Procs |-> {}]

\* Several tasks share the collection.
Init == InitCommon /\ callers = Procs

\* One task uses the collection.
InitSeq == InitCommon /\ callers = {"p1"}

\* ------------------------------------------------------------------ steps
\* The call returns r to its caller.
Return(p, r) ==
    /\ pc' = [pc EXCEPT ![p] = "idle"]
    /\ res' = [res EXCEPT ![p] = r]

\* Mutant: the connection is opened before the config is resolved.
Call_connectfirst(p, method, obj) ==
    /\ op' = [op EXCEPT ![p] = method]
    /\ self' = [self EXCEPT ![p] = obj]
    /\ ret' = [ret EXCEPT ![p] = <<>>]
    /\ calls' = [calls EXCEPT ![p] = <<"connect">>]
    /\ hit' = [hit EXCEPT ![p] = FALSE]
    /\ torn' = [torn EXCEPT ![p] = {}]
    /\ pre' = [pre EXCEPT ![p] = IF Alone(p) THEN store ELSE {}]
    /\ prev' = [prev EXCEPT ![p] =
                  IF Alone(p)
                  THEN [op |-> op[p], self |-> self[p], res |-> res[p], pre |-> pre[p]]
                  ELSE NoCall]
    /\ \E present \in BOOLEAN :
          IF ResolveConfig(present) = "Ok"
          THEN /\ pc' = [pc EXCEPT ![p] = "connect"]
               /\ res' = [res EXCEPT ![p] = "pending"]
          ELSE Return(p, ResolveConfig(present))
    /\ UNCHANGED <<store, callers>>

\* let cfg = Self::config(); then the method suspends on get_fs_db.
Call(p, method, obj) ==
    /\ op' = [op EXCEPT ![p] = method]
    /\ self' = [self EXCEPT ![p] = obj]
    /\ ret' = [ret EXCEPT ![p] = <<>>]
    /\ calls' = [calls EXCEPT ![p] = <<>>]
    /\ hit' = [hit EXCEPT ![p] = FALSE]
    /\ torn' = [torn EXCEPT ![p] = {}]
    /\ pre' = [pre EXCEPT ![p] = IF Alone(p) THEN store ELSE {}]
    /\ prev' = [prev EXCEPT ![p] =
                  IF Alone(p)
                  THEN [op |-> op[p], self |-> self[p], res |-> res[p], pre |-> pre[p]]
                  ELSE NoCall]
    /\ \E present \in BOOLEAN :
          IF ResolveConfig(present) = "Ok"
          THEN /\ pc' = [pc EXCEPT ![p] = "connect"]
               /\ res' = [res EXCEPT ![p] = "pending"]
          ELSE Return(p, ResolveConfig(present))
    /\ UNCHANGED <<store, callers>>

\* let db = get_fs_db(&cfg).await?;
Connect(p, next) ==
    /\ calls' = [calls EXCEPT ![p] = Append(@, "connect")]
    /\ \E ok \in BOOLEAN :
          IF ok
          THEN /\ pc' = [pc EXCEPT ![p] = next]
               /\ UNCHANGED res
          ELSE Return(p, "ConnectError")
    /\ UNCHANGED <<store, callers, op, self, ret, hit, pre, prev, torn>>

\* db.delete_by_id(&cfg.collection, self.uuid().to_string()).await?;
\* then the next await of the method, or Ok(()) when there is none.
Delete(p, next) ==
    /\ calls' = [calls EXCEPT ![p] = Append(@, "delete")]
    /\ \E ok \in BOOLEAN :
          IF ok
          THEN LET r == delete_by_id(store, DocId(self[p])) IN
               /\ store' = r.store
               /\ IF r.res # "Ok" THEN Return(p, r.res) /\ UNCHANGED hit
                  ELSE IF next = "idle" THEN Return(p, "Ok") /\ UNCHANGED hit
                  ELSE /\ pc' = [pc EXCEPT ![p] = next]
                       /\ hit' = [hit EXCEPT ![p] = (r.store # store)]
                       /\ UNCHANGED res
          ELSE /\ Return(p, "DeleteFault")
               /\ UNCHANGED <<store, hit>>
    /\ UNCHANGED <<callers, op, self, ret, pre, prev, torn>>

\* Mutant: a failed create puts the deleted document back.
Create_restore(p) ==
    /\ calls' = [calls EXCEPT ![p] = Append(@, "create")]
    /\ hit' = [hit EXCEPT ![p] = FALSE]
    /\ \E ok \in BOOLEAN :
          IF ok
          THEN LET r == create_obj(store, DocId(self[p]), self[p]) IN
               /\ store' = r.store
               /\ Return(p, r.res)
          ELSE /\ Return(p, "CreateFault")
               /\ store' = store \cup {d \in pre[p] : d.id = DocId(self[p])}
    /\ UNCHANGED <<callers, op, self, ret, pre, prev, torn>>

\* db.create_obj(&cfg.collection, self.uuid().to_string(), self).await?; Ok(())
Create(p) ==
    /\ calls' = [calls EXCEPT ![p] = Append(@, "create")]
    /\ hit' = [hit EXCEPT ![p] = FALSE]
    /\ \E ok \in BOOLEAN :
          IF ok
          THEN LET r == create_obj(store, DocId(self[p]), self[p]) IN
               /\ store' = r.store
               /\ Return(p, r.res)
          ELSE /\ Return(p, "CreateFault")
               /\ UNCHANGED store
    /\ UNCHANGED <<callers, op, self, ret, pre, prev, torn>>

\* The keys whose document another task's save has deleted and not yet
\* created again.
InGap(p) ==
    {uuid(self[q]) : q \in {q \in Procs \ {p} :
                                op[q] = "save" /\ pc[q] = "create" /\ hit[q]}}

\* let objects: Vec<Self> = db.query_obj(...).await?; then what the method
\* makes of them.
Query(p, method) ==
    /\ calls' = [calls EXCEPT ![p] = Append(@, "query")]
    /\ \E ok \in BOOLEAN :
          IF ok
          THEN /\ \E objects \in query_obj(store) :
                     ret' = [ret EXCEPT ![p] =
                               IF method = "hash" THEN HashOf(objects) ELSE objects]
               /\ torn' = [torn EXCEPT ![p] = InGap(p)]
               /\ Return(p, "Ok")
          ELSE /\ Return(p, "QueryFault")
               /\ UNCHANGED <<ret, torn>>
    /\ UNCHANGED <<store, callers, op, self, hit, pre, prev>>

\* ------------------------------------------------------------------ save
\* A task may call a method when its previous call has returned.
CanCall(p) == p \in callers /\ pc[p] = "idle"

\* The call is suspended before that await of that method.
At(p, method, await) == op[p] = method /\ pc[p] = await

SaveCall(p) ==
    /\ CanCall(p)
    /\ \E obj \in TestOBJ : Call(p, "save", obj)

\* Mutant: save without its delete step.
SaveConnect_nodelete(p) ==
    /\ At(p, "save", "connect")
    /\ Connect(p, "create")

SaveConnect(p) ==
    /\ At(p, "save", "connect")
    /\ Connect(p, "delete")

\* Mutant: save without its create step.
SaveDelete_nocreate(p) ==
    /\ At(p, "save", "delete")
    /\ Delete(p, "idle")

\* Mutant: save replaces the document in one store request.
SaveDelete_upsert(p) ==
    /\ At(p, "save", "delete")
    /\ calls' = [calls EXCEPT ![p] = Append(@, "delete")]
    /\ store' = {d \in store : d.id # DocId(self[p])}
                   \cup {Doc(DocId(self[p]), self[p])}
    /\ Return(p, "Ok")
    /\ UNCHANGED <<callers, op, self, ret, hit, pre, prev, torn>>

SaveDelete(p) ==
    /\ At(p, "save", "delete")
    /\ Delete(p, "create")

SaveCreate(p) ==
    /\ At(p, "save", "create")
    /\ Create(p)

\* ------------------------------------------------------------------ rm
RmCall(p) ==
    /\ CanCall(p)
    /\ \E obj \in TestOBJ : Call(p, "rm", obj)

RmConnect(p) ==
    /\ At(p, "rm", "connect")
    /\ Connect(p, "delete")

RmDelete(p) ==
    /\ At(p, "rm", "delete")
    /\ Delete(p, "idle")

\* ------------------------------------------------------------------ get
GetCall(p) ==
    /\ CanCall(p)
    /\ Call(p, "get", NoObj)

GetConnect(p) ==
    /\ At(p, "get", "connect")
    /\ Connect(p, "query")

GetQuery(p) ==
    /\ At(p, "get", "query")
    /\ Query(p, "get")

\* ------------------------------------------------------------------ hash
HashCall(p) ==
    /\ CanCall(p)
    /\ Call(p, "hash", NoObj)

HashConnect(p) ==
    /\ At(p, "hash", "connect")
    /\ Connect(p, "query")

HashQuery(p) ==
    /\ At(p, "hash", "query")
    /\ Query(p, "hash")

Next ==
    \E p \in Procs :
        \/ SaveCall(p)
        \/ SaveConnect(p)
        \/ SaveDelete(p)
        \/ SaveCreate(p)
        \/ RmCall(p)
        \/ RmConnect(p)
        \/ RmDelete(p)
        \/ GetCall(p)
        \/ GetConnect(p)
        \/ GetQuery(p)
        \/ HashCall(p)
        \/ HashConnect(p)
        \/ HashQuery(p)

\* Several tasks, their steps interleaved.
Spec == Init /\ [][Next]_vars

\* One task: each call runs to completion before the next begins.
SpecSeq == InitSeq /\ [][Next]_vars

\* Several tasks that save and read, none of which ever calls rm.
NextNoRm ==
    \E p \in Procs :
        \/ SaveCall(p)
        \/ SaveConnect(p)
        \/ SaveDelete(p)
        \/ SaveCreate(p)
        \/ GetCall(p)
        \/ GetConnect(p)
        \/ GetQuery(p)
        \/ HashCall(p)
        \/ HashConnect(p)
        \/ HashQuery(p)

SpecNoRm == Init /\ [][NextNoRm]_vars

\* ------------------------------------------------------------------ claims
\* The objects a collection holds, and its documents of one key.
Stored(s) == {Deserialize(d.fields) : d \in s}
DocsAt(s, k) == {d \in s : uuid(Deserialize(d.fields)) = k}
Absent(s, k) == DocsAt(s, k) = {}

\* The objects of a returned Vec.
Returned(v) == {v[i] : i \in DOMAIN v}

\* The task's last call was to that method and has returned.
Done(p, method) == pc[p] = "idle" /\ op[p] = method

\* The lone task's call before the last was to that method and returned Ok.
Before(p, method) == Alone(p) /\ prev[p].op = method /\ prev[p].res = "Ok"

\* The failures of the environment, as opposed to a refusal by the store.
Faults ==
    {"ConfigurationError", "ConnectError", "DeleteFault", "CreateFault", "QueryFault"}

\* C1: after a save(e) that returned Ok, the get() that follows it with no
\* other operation in between returns exactly one object with e's key, and it
\* equals e; when the collection was empty before the save, it returns a Vec
\* of length 1.
C1_SaveThenGet ==
    \A p \in Procs :
        (Before(p, "save") /\ Done(p, "get") /\ res[p] = "Ok") =>
            LET e == prev[p].self
                at == {i \in DOMAIN ret[p] : uuid(ret[p][i]) = uuid(e)}
            IN  /\ Cardinality(at) = 1
                /\ \A i \in at : ret[p][i] = e
                /\ (prev[p].pre = {} => Len(ret[p]) = 1)

\* The crate's test: {key: "aaa", data: "data"} saved into the empty
\* collection, then get().
C1_Witness ==
    \E p \in Procs :
        /\ Before(p, "save") /\ Done(p, "get") /\ res[p] = "Ok"
        /\ prev[p].pre = {}
        /\ prev[p].self = [key |-> "aaa", data |-> "data"]
        /\ Len(ret[p]) = 1

\* No two documents of the collection hold the same key.
OnePerKey ==
    \A d1, d2 \in store :
        uuid(Deserialize(d1.fields)) = uuid(Deserialize(d2.fields)) => d1 = d2

\* C2: with several tasks saving and removing in any interleaving of their
\* steps, the collection never holds two documents of one key, and the step
\* that completes a save with Ok leaves exactly the saved object at its key.
C2_OneDocumentPerKey ==
    /\ []OnePerKey
    /\ [][\A p \in Procs :
            (op[p] = "save" /\ res[p] = "pending" /\ res'[p] = "Ok") =>
                /\ Cardinality(DocsAt(store', uuid(self[p]))) = 1
                /\ Stored(DocsAt(store', uuid(self[p]))) = {self[p]}]_vars

\* A save has completed while another save of the same key with another
\* payload is between its delete and its create.
C2_Witness ==
    \E p, q \in Procs :
        /\ p # q
        /\ Done(p, "save") /\ res[p] = "Ok"
        /\ At(q, "save", "create")
        /\ uuid(self[q]) = uuid(self[p])
        /\ self[q] # self[p]
        /\ Stored(DocsAt(store, uuid(self[p]))) = {self[p]}

\* C3: save(e1) then save(e2), same key and different payloads, nothing in
\* between: the second save is not refused because the key exists, and when it
\* returns Ok the collection holds exactly one document at the key, with e2.
C3_SecondSaveReplaces ==
    \A p \in Procs :
        (/\ Before(p, "save") /\ Done(p, "save")
         /\ uuid(prev[p].self) = uuid(self[p])
         /\ prev[p].self # self[p]) =>
            /\ res[p] # "AlreadyExists"
            /\ res[p] = "Ok" =>
                 /\ Cardinality(DocsAt(store, uuid(self[p]))) = 1
                 /\ Stored(DocsAt(store, uuid(self[p]))) = {self[p]}

C3_Witness ==
    \E p \in Procs :
        /\ Before(p, "save") /\ Done(p, "save") /\ res[p] = "Ok"
        /\ uuid(prev[p].self) = uuid(self[p])
        /\ prev[p].self # self[p]

\* C4: save(e) then rm(e), both Ok and nothing in between: whatever a get()
\* of the resulting collection returns holds no object with e's key and holds
\* every object that was stored under another key before the save.
C4_SaveThenRemove ==
    \A p \in Procs :
        (/\ Before(p, "save") /\ Done(p, "rm") /\ res[p] = "Ok"
         /\ prev[p].self = self[p]) =>
            \A objects \in query_obj(store) :
                /\ \A i \in DOMAIN objects : uuid(objects[i]) # uuid(self[p])
                /\ {o \in Stored(prev[p].pre) : uuid(o) # uuid(self[p])}
                       \subseteq Returned(objects)

\* The collection held a document of e's key and one of another key.
C4_Witness ==
    \E p \in Procs :
        /\ Before(p, "save") /\ Done(p, "rm") /\ res[p] = "Ok"
        /\ prev[p].self = self[p]
        /\ ~Absent(prev[p].pre, uuid(self[p]))
        /\ \E o \in Stored(prev[p].pre) : uuid(o) # uuid(self[p])

\* C5: a save never replaces its document in one step.  Its delete step
\* leaves the collection without a document of the key, so that a query taken
\* then returns no object with it, and the save completes only by a later
\* create step, taken when the key has no document.
C5_SaveOpensGap ==
    [][\A p \in Procs :
         /\ (At(p, "save", "delete") /\ pc'[p] = "create") =>
                \A objects \in query_obj(store') :
                    \A i \in DOMAIN objects : uuid(objects[i]) # uuid(self[p])
         /\ (op[p] = "save" /\ res[p] = "pending" /\ res'[p] = "Ok") =>
                /\ pc[p] = "create"
                /\ Absent(store, uuid(self[p]))]_vars

\* No task ever calls rm; the key held a document; a save of it is between
\* its delete and its create; and another task's get(), run meanwhile, has
\* returned no object with the key.
C5_Witness ==
    \E p, q \in Procs :
        /\ p # q
        /\ At(p, "save", "create") /\ hit[p]
        /\ Done(q, "get") /\ res[q] = "Ok"
        /\ uuid(self[p]) \in torn[q]
        /\ \A i \in DOMAIN ret[q] : uuid(ret[q][i]) # uuid(self[p])

\* C6: an rm or a save whose key holds no document is not refused for that:
\* it returns Ok unless the environment faults; and the rm leaves the
\* collection as it was.
C6_RemoveAbsent ==
    \A p \in Procs :
        (/\ Alone(p) /\ pc[p] = "idle" /\ op[p] \in {"rm", "save"}
         /\ Absent(pre[p], uuid(self[p]))) =>
            /\ res[p] \in {"Ok"} \cup Faults
            /\ op[p] = "rm" => store = pre[p]

\* rm(e) twice in a row, Ok both times.
C6_Witness ==
    \E p \in Procs :
        /\ Before(p, "rm") /\ Done(p, "rm") /\ res[p] = "Ok"
        /\ prev[p].self = self[p]
        /\ Absent(pre[p], uuid(self[p]))
        /\ store = pre[p]

\* C7: whatever the order in which the store returned the documents, the map
\* hash() returns has the keys of the collection's objects as its key set,
\* each key mapped to the stored object of that key, and as many entries as a
\* get() of the same collection returns objects.
C7_HashKeys ==
    \A p \in Procs :
        (Alone(p) /\ Done(p, "hash") /\ res[p] = "Ok") =>
            /\ DOMAIN ret[p] = {uuid(o) : o \in Stored(store)}
            /\ \A k \in DOMAIN ret[p] :
                   uuid(ret[p][k]) = k /\ ret[p][k] \in Stored(store)
            /\ \A objects \in query_obj(store) :
                   Len(objects) = Cardinality(DOMAIN ret[p])

\* hash() of a collection of two documents, which the store returns in
\* either order.
C7_Witness ==
    \E p \in Procs :
        /\ Alone(p) /\ Done(p, "hash") /\ res[p] = "Ok"
        /\ Cardinality(store) = 2
        /\ Cardinality(query_obj(store)) = 2
        /\ Cardinality(DOMAIN ret[p]) = 2

\* C8: save(e) twice in a row: the second save is not refused, and when it
\* returns Ok the collection is what the first save left.
C8_SaveIdempotent ==
    \A p \in Procs :
        (Before(p, "save") /\ Done(p, "save") /\ prev[p].self = self[p]) =>
            /\ res[p] \in {"Ok"} \cup Faults
            /\ res[p] = "Ok" => store = pre[p]

\* Both saves returned Ok, and the first one changed the collection.
C8_Witness ==
    \E p \in Procs :
        /\ Before(p, "save") /\ Done(p, "save") /\ res[p] = "Ok"
        /\ prev[p].self = self[p]
        /\ prev[p].pre # pre[p]
        /\ store = pre[p]

C10_FailedSave ==
    \A p \in Procs :
        (Alone(p) /\ Done(p, "save")) =>
            /\ res[p] = "CreateFault" =>
                 /\ calls[p] = <<"connect", "delete", "create">>
                 /\ Absent(store, uuid(self[p]))
                 /\ store = pre[p] \ DocsAt(pre[p], uuid(self[p]))
            /\ res[p] \in {"ConnectError", "DeleteFault"} =>
                 /\ "create" \notin Returned(calls[p])
                 /\ store = pre[p]

\* The previous document of the key is lost.
C10_Witness ==
    \E p \in Procs :
        /\ Alone(p) /\ Done(p, "save") /\ res[p] = "CreateFault"
        /\ ~Absent(pre[p], uuid(self[p]))
        /\ Absent(store, uuid(self[p]))

====
